---- MODULE Spec2Model ----
(***************************************************************************)
(* anymap: Map<A>, a store holding at most one value per concrete type,    *)
(* keyed by TypeId, backed by RawMap<A> = HashMap<TypeId, Box<A>, ..>.     *)
(*                                                                         *)
(* A stored Box<A> is modelled by the record [ty, v]: ty is the runtime    *)
(* concrete type of the boxed value, v its payload.  The key it is stored  *)
(* under is a separate thing (the TypeId the caller passed to the raw      *)
(* map), so that "key matches runtime type" is something the operations    *)
(* have to establish.                                                      *)
(***************************************************************************)
EXTENDS Integers, Sequences, FiniteSets, TLC

\* Payloads of stored values range over 0..MaxVal.
MaxVal == 1
\* Longest iterator handed to extend.
MaxIter == 1
\* Largest argument of with_capacity / reserve.
MaxCap == 2
\* How much more than asked the backing table may allocate.
Slack == 1

\* Longest byte slice handed to TypeIdHasher::write.
MaxWrite == 9
\* Most writes a hasher receives between its construction and finish().
MaxWrites == 2

\* Concrete types a caller can name.  A and B are the tests' structs; BoxAny is
\* Box<A> itself (Box<dyn Any> is 'static, hence storable and has a TypeId).
Types == {"A", "B", "BoxAny"}
Vals == 0 .. MaxVal

\* TypeId::of::<T>(): an opaque token, distinct for distinct types.
TypeIdOf(T) == <<"TypeId", T>>
Keys == {TypeIdOf(T) : T \in Types}

\* IntoBox::into_box: an owned T becomes a Box<A> whose runtime type is T.
IntoBox(T, v) == [ty |-> T, v |-> v]
Boxes == {IntoBox(T, v) : T \in Types, v \in Vals}

\* An empty bucket of the raw table.
Absent == [ty |-> "-", v |-> 0]

\* downcast_{ref,mut,}_unchecked::<T>: no tag check.  On a box whose runtime
\* type is T it yields the value; on any other box the read is undefined
\* behaviour and may yield any bit pattern taken as a T.
DowncastUnchecked(box, T) == IF box.ty = T THEN {box.v} ELSE Vals

\* A write of w through a `&mut T` obtained by downcast_mut_unchecked::<T>.
WriteThrough(box, T, w) ==
    IF box.ty = T THEN {[box EXCEPT !.v = w]}
    ELSE {[box EXCEPT !.v = x] : x \in Vals}

\* Results handed back to the caller.
None == [tag |-> "None", v |-> 0]
Some(x) == [tag |-> "Some", v |-> x]
Unit == [tag |-> "Unit", v |-> 0]
Bool(b) == [tag |-> "Bool", v |-> IF b THEN 1 ELSE 0]

VARIABLES
    raw,      \* Map.raw: [slot : Keys -> box or Absent, items, cap]
    live,     \* FALSE once into_raw has consumed the map
    borrow,   \* the outstanding exclusive borrow of the map: [kind, T]
    op,       \* the operation that produced this state: [name, T, arg, calls,
              \* was], was being len() when it was called
    ret,      \* what that operation returned
    other,    \* the maps made by clone() that the caller holds besides the
              \* one it operates on (at most one)
    hasher,   \* a TypeIdHasher: [value, fed, panicked]; fed lists the slices
              \* written to it since it was constructed
    build     \* how the crate was compiled: [debug_assertions, target_endian]

vars == <<raw, live, borrow, op, ret, other, hasher, build>>

NoBorrow == [kind |-> "None", T |-> "-"]

\* capacities the backing table may pick when it must hold `need` elements
CapChoices(need) == need .. (need + Slack)

\* RawMap::with_hasher(Default::default()): empty, nothing allocated.
NewRaw == [slot |-> [k \in Keys |-> Absent], items |-> 0, cap |-> 0]

\* HashMap::insert / HashMap::remove on the slots and the element count.
RawInsert(m, k, box) ==
    [m EXCEPT !.slot[k] = box,
              !.items = IF m.slot[k] = Absent THEN @ + 1 ELSE @]

RawRemove(m, k) ==
    [m EXCEPT !.slot[k] = Absent,
              !.items = IF m.slot[k] = Absent THEN @ ELSE @ - 1]

\* The table grows only when it has to.
Regrown(m) ==
    IF m.items > m.cap THEN {[m EXCEPT !.cap = c] : c \in CapChoices(m.items)}
    ELSE {m}

\* len() answering with the table's capacity
lenOfCapacity == raw.cap

len == raw.items
is_empty == raw.items = 0
capacity == raw.cap
contains(T) == raw.slot[TypeIdOf(T)] # Absent

\* What get::<T>() can return on the raw map m.
get(m, T) ==
    IF m.slot[TypeIdOf(T)] = Absent THEN {None}
    ELSE {Some(x) : x \in DowncastUnchecked(m.slot[TypeIdOf(T)], T)}

Did(name, T, arg, calls) ==
    /\ op' = [name |-> name, T |-> T, arg |-> arg, calls |-> calls, was |-> raw.items]
    /\ UNCHANGED <<other, hasher, build>>

Free == live /\ borrow = NoBorrow

\* Width of the hash state in bytes.
U64Bytes == 8

\* A u64 is written as its 8 bytes, most significant first.
Zero64 == [i \in 1 .. U64Bytes |-> 0]

\* The 64 bits of TypeId::of::<T>() (what transmute::<TypeId, u64> shows).
TypeIdBits(T) ==
    CASE T = "A" -> <<18, 52, 86, 120, 154, 188, 222, 240>>
      [] T = "B" -> <<0, 0, 0, 0, 0, 0, 0, 1>>
      [] OTHER -> <<255, 0, 0, 0, 0, 0, 0, 0>>

\* u64::to_ne_bytes / u64::from_ne_bytes: memory order is the reverse of
\* significance order on a little-endian target.
ToNeBytes(u) ==
    IF build.target_endian = "little" THEN [i \in 1 .. U64Bytes |-> u[U64Bytes + 1 - i]]
    ELSE u

FromNeBytes(array) ==
    IF build.target_endian = "little"
    THEN [i \in 1 .. U64Bytes |-> array[U64Bytes + 1 - i]]
    ELSE array

\* Byte slices a caller may hand to write(): every length up to MaxWrite.
Slices ==
    {SubSeq(TypeIdBits(T) \o TypeIdBits(T) \o TypeIdBits(T), 1, n) :
        T \in Types, n \in 0 .. MaxWrite}

\* #[derive(Default)]: value = 0
NewHasher == [value |-> Zero64, fed |-> <<>>, panicked |-> FALSE]

Builds == [debug_assertions : BOOLEAN, target_endian : {"little", "big"}]

Init ==
    /\ raw = NewRaw
    /\ live = TRUE
    /\ borrow = NoBorrow
    /\ op = [name |-> "new", T |-> "-", arg |-> 0, calls |-> 0, was |-> 0]
    /\ ret = Unit
    /\ other = {}
    /\ hasher = NewHasher
    /\ build = [debug_assertions |-> TRUE, target_endian |-> "little"]

\* Map::new() / Default::default()
New ==
    /\ borrow = NoBorrow
    /\ raw' = NewRaw
    /\ live' = TRUE
    /\ ret' = Unit
    /\ Did("new", "-", 0, 0)
    /\ UNCHANGED borrow

\* insert keyed by the boxed value's own `type_id()` call instead of
\* TypeId::of::<T>()
InsertKeyedByBox(T, v) ==
    /\ Free
    /\ raw' \in Regrown(RawInsert(raw, TypeIdOf("BoxAny"), IntoBox(T, v)))
    /\ ret' \in get(raw, T)
    /\ Did("insert", T, v, 0)
    /\ UNCHANGED <<live, borrow>>

\* Map::insert::<T>(value)
Insert(T, v) ==
    /\ Free
    /\ raw' \in Regrown(RawInsert(raw, TypeIdOf(T), IntoBox(T, v)))
    /\ ret' \in get(raw, T)
    /\ Did("insert", T, v, 0)
    /\ UNCHANGED <<live, borrow>>

\* Map::with_capacity(n)
WithCapacity(n) ==
    /\ borrow = NoBorrow
    /\ raw' \in {[NewRaw EXCEPT !.cap = c] : c \in CapChoices(n)}
    /\ live' = TRUE
    /\ ret' = Unit
    /\ Did("with_capacity", "-", n, 0)
    /\ UNCHANGED borrow

\* Map::reserve(additional)
Reserve(n) ==
    /\ Free
    /\ raw' \in IF raw.items + n > raw.cap
                THEN {[raw EXCEPT !.cap = c] : c \in CapChoices(raw.items + n)}
                ELSE {raw}
    /\ ret' = Unit
    /\ Did("reserve", "-", n, 0)
    /\ UNCHANGED <<live, borrow>>

\* Map::shrink_to_fit()
ShrinkToFit ==
    /\ Free
    /\ raw' \in {[raw EXCEPT !.cap = c] : c \in CapChoices(raw.items) \cap (0 .. raw.cap)}
    /\ ret' = Unit
    /\ Did("shrink_to_fit", "-", 0, 0)
    /\ UNCHANGED <<live, borrow>>

\* clear() by replacing the table with a fresh one
ClearByReplacing ==
    /\ Free
    /\ raw' = NewRaw
    /\ ret' = Unit
    /\ Did("clear", "-", 0, 0)
    /\ UNCHANGED <<live, borrow>>

\* Map::clear(): every bucket emptied, the allocation kept
Clear ==
    /\ Free
    /\ raw' = [NewRaw EXCEPT !.cap = raw.cap]
    /\ ret' = Unit
    /\ Did("clear", "-", 0, 0)
    /\ UNCHANGED <<live, borrow>>

\* get() that unwraps the lookup: a missing key panics
GetUnwrapping(T) ==
    /\ Free
    /\ ret' \in IF raw.slot[TypeIdOf(T)] = Absent THEN {[tag |-> "Panic", v |-> 0]}
                ELSE get(raw, T)
    /\ Did("get", T, 0, 0)
    /\ UNCHANGED <<raw, live, borrow>>

\* Map::get::<T>()
Get(T) ==
    /\ Free
    /\ ret' \in get(raw, T)
    /\ Did("get", T, 0, 0)
    /\ UNCHANGED <<raw, live, borrow>>

\* Map::get_mut::<T>(): when Some, the caller holds a `&mut T` into the slot
GetMut(T) ==
    /\ Free
    /\ ret' \in get(raw, T)
    /\ borrow' = IF raw.slot[TypeIdOf(T)] = Absent THEN NoBorrow
                 ELSE [kind |-> "Mut", T |-> T]
    /\ Did("get_mut", T, 0, 0)
    /\ UNCHANGED <<raw, live>>

\* The caller assigns w through the `&mut T` it holds.
WriteRef(w) ==
    /\ borrow.kind \in {"Mut", "OccMut"}
    /\ \E b \in WriteThrough(raw.slot[TypeIdOf(borrow.T)], borrow.T, w) :
           raw' = [raw EXCEPT !.slot[TypeIdOf(borrow.T)] = b]
    /\ ret' = Unit
    /\ Did("write_ref", borrow.T, w, 0)
    /\ UNCHANGED <<live, borrow>>

\* The `&mut T` goes out of scope; one taken from an OccupiedEntry gives the
\* entry back.
ReleaseRef ==
    /\ borrow.kind \in {"Mut", "OccMut"}
    /\ borrow' = IF borrow.kind = "OccMut" THEN [borrow EXCEPT !.kind = "Occupied"]
                 ELSE NoBorrow
    /\ ret' = Unit
    /\ Did("release_ref", borrow.T, 0, 0)
    /\ UNCHANGED <<raw, live>>

\* remove() that drains the whole table
RemoveDraining(T) ==
    /\ Free
    /\ raw' = [NewRaw EXCEPT !.cap = raw.cap]
    /\ ret' \in get(raw, T)
    /\ Did("remove", T, 0, 0)
    /\ UNCHANGED <<live, borrow>>

\* Map::remove::<T>()
Remove(T) ==
    /\ Free
    /\ raw' = RawRemove(raw, TypeIdOf(T))
    /\ ret' \in get(raw, T)
    /\ Did("remove", T, 0, 0)
    /\ UNCHANGED <<live, borrow>>

\* Map::contains::<T>()
Contains(T) ==
    /\ Free
    /\ ret' = Bool(raw.slot[TypeIdOf(T)] # Absent)
    /\ Did("contains", T, 0, 0)
    /\ UNCHANGED <<raw, live, borrow>>

\* Map::as_raw(): a shared view of the table
AsRaw ==
    /\ Free
    /\ ret' = Unit
    /\ Did("as_raw", "-", 0, 0)
    /\ UNCHANGED <<raw, live, borrow>>

\* Map::into_raw(): the map is consumed, the table handed out as it is
IntoRaw ==
    /\ Free
    /\ live' = FALSE
    /\ ret' = Unit
    /\ Did("into_raw", "-", 0, 0)
    /\ UNCHANGED <<raw, borrow>>

\* entry() with the arms of its match exchanged
MapEntrySwapped(T) ==
    /\ Free
    /\ borrow' = [kind |-> IF raw.slot[TypeIdOf(T)] # Absent THEN "Vacant" ELSE "Occupied",
                  T |-> T]
    /\ ret' = [tag |-> borrow'.kind, v |-> 0]
    /\ Did("entry", T, 0, 0)
    /\ UNCHANGED <<raw, live>>

\* Map::entry::<T>(): one lookup; the view borrows the map exclusively
MapEntry(T) ==
    /\ Free
    /\ borrow' = [kind |-> IF raw.slot[TypeIdOf(T)] # Absent THEN "Occupied" ELSE "Vacant",
                  T |-> T]
    /\ ret' = [tag |-> borrow'.kind, v |-> 0]
    /\ Did("entry", T, 0, 0)
    /\ UNCHANGED <<raw, live>>

\* An Entry / OccupiedEntry / VacantEntry dropped without a terminal operation.
EntryDrop ==
    /\ borrow.kind \in {"Occupied", "Vacant"}
    /\ borrow' = NoBorrow
    /\ ret' = Unit
    /\ Did("entry_drop", borrow.T, 0, 0)
    /\ UNCHANGED <<raw, live>>

\* OccupiedEntry::get
OccGet ==
    /\ borrow.kind = "Occupied"
    /\ ret' \in get(raw, borrow.T)
    /\ Did("occupied_get", borrow.T, 0, 0)
    /\ UNCHANGED <<raw, live, borrow>>

\* OccupiedEntry::get_mut: a `&mut V` borrowed from the view
OccGetMut ==
    /\ borrow.kind = "Occupied"
    /\ ret' \in get(raw, borrow.T)
    /\ borrow' = [borrow EXCEPT !.kind = "OccMut"]
    /\ Did("occupied_get_mut", borrow.T, 0, 0)
    /\ UNCHANGED <<raw, live>>

\* OccupiedEntry::into_mut, under the name of the caller's operation
IntoMut(name) ==
    /\ borrow.kind = "Occupied"
    /\ ret' \in get(raw, borrow.T)
    /\ borrow' = [borrow EXCEPT !.kind = "Mut"]
    /\ Did(name, borrow.T, 0, 0)
    /\ UNCHANGED <<raw, live>>

\* VacantEntry::insert, under the name of the caller's operation
VacantInsert(name, v, calls) ==
    /\ borrow.kind = "Vacant"
    /\ raw' \in Regrown(RawInsert(raw, TypeIdOf(borrow.T), IntoBox(borrow.T, v)))
    /\ ret' \in {Some(x) : x \in DowncastUnchecked(IntoBox(borrow.T, v), borrow.T)}
    /\ borrow' = [borrow EXCEPT !.kind = "Mut"]
    /\ Did(name, borrow.T, v, calls)
    /\ UNCHANGED live

OccIntoMut == IntoMut("occupied_into_mut")

\* VacantEntry::insert that boxes a default value instead of its argument
VacInsertDefaulting(v) ==
    /\ borrow.kind = "Vacant"
    /\ raw' \in Regrown(RawInsert(raw, TypeIdOf(borrow.T), IntoBox(borrow.T, 0)))
    /\ ret' = Some(v)
    /\ borrow' = [borrow EXCEPT !.kind = "Mut"]
    /\ Did("vacant_insert", borrow.T, v, 0)
    /\ UNCHANGED live

VacInsert(v) == VacantInsert("vacant_insert", v, 0)

\* OccupiedEntry::insert: the value replaced in place, the old one returned
OccInsert(v) ==
    /\ borrow.kind = "Occupied"
    /\ raw' = RawInsert(raw, TypeIdOf(borrow.T), IntoBox(borrow.T, v))
    /\ ret' \in get(raw, borrow.T)
    /\ Did("occupied_insert", borrow.T, v, 0)
    /\ UNCHANGED <<live, borrow>>

\* OccupiedEntry::remove taking `&mut self`: the view outlives the removal
OccRemoveKeepingView ==
    /\ borrow.kind = "Occupied"
    /\ raw' = RawRemove(raw, TypeIdOf(borrow.T))
    /\ ret' \in get(raw, borrow.T)
    /\ Did("occupied_remove", borrow.T, 0, 0)
    /\ UNCHANGED <<live, borrow>>

\* OccupiedEntry::remove
OccRemove ==
    /\ borrow.kind = "Occupied"
    /\ raw' = RawRemove(raw, TypeIdOf(borrow.T))
    /\ ret' \in get(raw, borrow.T)
    /\ borrow' = NoBorrow
    /\ Did("occupied_remove", borrow.T, 0, 0)
    /\ UNCHANGED live

\* or_insert that stores the default in the Occupied arm too
OrInsertOverwriting(d) ==
    \/ /\ borrow.kind = "Occupied"
       /\ raw' = RawInsert(raw, TypeIdOf(borrow.T), IntoBox(borrow.T, d))
       /\ ret' = Some(d)
       /\ borrow' = [borrow EXCEPT !.kind = "Mut"]
       /\ Did("or_insert", borrow.T, d, 0)
       /\ UNCHANGED live
    \/ VacantInsert("or_insert", d, 0)

\* Entry::or_insert(default)
OrInsert(d) ==
    \/ IntoMut("or_insert")
    \/ VacantInsert("or_insert", d, 0)

\* or_insert_with that calls default() before the match
OrInsertWithEager(d) ==
    \/ /\ borrow.kind = "Occupied"
       /\ ret' \in get(raw, borrow.T)
       /\ borrow' = [borrow EXCEPT !.kind = "Mut"]
       /\ Did("or_insert_with", borrow.T, 0, 1)
       /\ UNCHANGED <<raw, live>>
    \/ VacantInsert("or_insert_with", d, 1)

\* Entry::or_insert_with(default): default() is called in the Vacant arm only
OrInsertWith(d) ==
    \/ IntoMut("or_insert_with")
    \/ VacantInsert("or_insert_with", d, 1)

\* <V as Default>::default() of the stored types
DefaultVal == 0

\* Entry::or_default()
OrDefault ==
    \/ IntoMut("or_default")
    \/ VacantInsert("or_default", DefaultVal, 0)

\* The closures handed to and_modify: x becomes x + d, wrapping in Vals.
Modify(d, x) == (x + d) % (MaxVal + 1)

\* Entry::and_modify(f)
AndModify(d) ==
    /\ borrow.kind \in {"Occupied", "Vacant"}
    /\ IF borrow.kind = "Occupied"
       THEN /\ \E x \in DowncastUnchecked(raw.slot[TypeIdOf(borrow.T)], borrow.T) :
                 \E b \in WriteThrough(raw.slot[TypeIdOf(borrow.T)], borrow.T, Modify(d, x)) :
                    raw' = [raw EXCEPT !.slot[TypeIdOf(borrow.T)] = b]
            /\ Did("and_modify", borrow.T, d, 1)
       ELSE /\ raw' = raw
            /\ Did("and_modify", borrow.T, d, 0)
    /\ ret' = [tag |-> borrow.kind, v |-> 0]
    /\ UNCHANGED <<live, borrow>>

\* `item.type_id()` in extend, item : Box<A>.  Method lookup stops at the
\* first receiver that has a `type_id`: `&Box<A>`, through Any (in scope,
\* and implemented for every 'static type, Box<A> included).  The key is
\* therefore the TypeId of Box<A>, whatever value the box holds.
ItemTypeId(item) == TypeIdOf("BoxAny")

\* the `for item in iter` loop of extend
RECURSIVE ExtendLoop(_, _)
ExtendLoop(m, it) ==
    IF it = << >> THEN {m}
    ELSE UNION {ExtendLoop(n, Tail(it)) :
                  n \in Regrown(RawInsert(m, ItemTypeId(Head(it)), Head(it)))}

Iters == UNION {[1 .. n -> Boxes] : n \in 0 .. MaxIter}

\* <Map<A> as Extend<Box<A>>>::extend(iter)
Extend(it) ==
    /\ Free
    /\ raw' \in ExtendLoop(raw, it)
    /\ ret' = Unit
    /\ Did("extend", "-", Len(it), 0)
    /\ UNCHANGED <<live, borrow>>

\* <Box<A> as Clone>::clone: a new allocation holding a clone of the boxed
\* value, of the same runtime type (the call goes through the value's vtable).
CloneBox(box) == [ty |-> box.ty, v |-> box.v]

\* HashMap::clone: every (key, value) pair cloned into a table of its own,
\* allocated with as many buckets as the original
RawClone(m) ==
    [slot |-> [k \in Keys |-> IF m.slot[k] = Absent THEN Absent ELSE CloneBox(m.slot[k])],
      items |-> m.items,
      cap |-> m.cap]

\* clone() answering with a new, empty map
CloneEmpty ==
    /\ Free
    /\ other' = {NewRaw}
    /\ ret' = Unit
    /\ op' = [name |-> "clone", T |-> "-", arg |-> 0, calls |-> 0, was |-> raw.items]
    /\ UNCHANGED <<raw, live, borrow, hasher, build>>

\* <Map<A> as Clone>::clone(&self), the result bound by the caller
Clone ==
    /\ Free
    /\ other' = {RawClone(raw)}
    /\ ret' = Unit
    /\ op' = [name |-> "clone", T |-> "-", arg |-> 0, calls |-> 0, was |-> raw.items]
    /\ UNCHANGED <<raw, live, borrow, hasher, build>>

\* The caller goes on with the clone and sets the map it was using aside.
Swap ==
    /\ Free
    /\ \E m \in other : raw' = m /\ other' = {raw}
    /\ ret' = Unit
    /\ op' = [name |-> "swap", T |-> "-", arg |-> 0, calls |-> 0, was |-> raw.items]
    /\ UNCHANGED <<live, borrow, hasher, build>>

HasherOp(name, T, n) ==
    /\ op' = [name |-> name, T |-> T, arg |-> n, calls |-> 0, was |-> raw.items]
    /\ UNCHANGED <<raw, live, borrow, other, build>>

\* TypeIdHasher::default()
HasherDefault ==
    /\ hasher' = NewHasher
    /\ ret' = Unit
    /\ HasherOp("hasher_default", "-", 0)

\* write() compiled without its debug assertion in every build
WrittenUnasserted(h, bytes) ==
    [h EXCEPT !.fed = Append(@, bytes),
              !.value = IF Len(bytes) = U64Bytes THEN FromNeBytes(bytes) ELSE @]

\* The hasher h after write(bytes): the assertion fails in a debug build on
\* any length but 8; otherwise try_into() succeeds on 8 bytes only and its
\* Err is discarded.
Written(h, bytes) ==
    IF build.debug_assertions /\ Len(bytes) # U64Bytes
    THEN [h EXCEPT !.fed = Append(@, bytes), !.panicked = TRUE]
    ELSE [h EXCEPT !.fed = Append(@, bytes),
                   !.value = IF Len(bytes) = U64Bytes THEN FromNeBytes(bytes) ELSE @]

\* The effect of write(bytes) on the hasher and what the call comes to.
WriteTo(bytes) ==
    /\ hasher' = Written(hasher, bytes)
    /\ ret' = IF hasher'.panicked THEN [tag |-> "Panic", v |-> 0] ELSE Unit

\* write() reading the slice as a big-endian number whatever the target
WriteBigEndian(bytes) ==
    /\ ~hasher.panicked
    /\ Len(hasher.fed) < MaxWrites
    /\ IF build.debug_assertions /\ Len(bytes) # U64Bytes
       THEN /\ hasher' = [hasher EXCEPT !.fed = Append(@, bytes), !.panicked = TRUE]
            /\ ret' = [tag |-> "Panic", v |-> 0]
       ELSE /\ hasher' = [hasher EXCEPT
                             !.fed = Append(@, bytes),
                             !.value = IF Len(bytes) = U64Bytes THEN bytes ELSE @]
            /\ ret' = Unit
    /\ HasherOp("write", "-", Len(bytes))

\* <TypeIdHasher as Hasher>::write(bytes)
Write(bytes) ==
    /\ ~hasher.panicked
    /\ Len(hasher.fed) < MaxWrites
    /\ WriteTo(bytes)
    /\ HasherOp("write", "-", Len(bytes))

\* type_id.hash(&mut hasher): the derived Hash of TypeId { t: u64 } is
\* Hasher::write_u64(t), whose provided body is write(&t.to_ne_bytes()).
HashTypeId(T) ==
    /\ ~hasher.panicked
    /\ Len(hasher.fed) < MaxWrites
    /\ WriteTo(ToNeBytes(TypeIdBits(T)))
    /\ HasherOp("hash", T, U64Bytes)

\* What a keyed operation of the facade (raw.get(&TypeId::of::<T>()), insert,
\* remove, contains_key, entry) has the table do with its key: a hasher from
\* BuildHasherDefault<TypeIdHasher>, the TypeId hashed into it, finish().
HashKey(T) ==
    /\ hasher' = Written(NewHasher, ToNeBytes(TypeIdBits(T)))
    /\ ret' = IF hasher'.panicked THEN [tag |-> "Panic", v |-> 0]
              ELSE [tag |-> "U64", v |-> hasher'.value]
    /\ HasherOp("hash_key", T, U64Bytes)

\* <TypeIdHasher as Hasher>::finish(&self)
Finish ==
    /\ ~hasher.panicked
    /\ ret' = [tag |-> "U64", v |-> hasher.value]
    /\ HasherOp("finish", "-", 0)
    /\ UNCHANGED hasher

NextTyped ==
    \/ New
    \/ \E n \in 0 .. MaxCap : WithCapacity(n)
    \/ \E n \in 0 .. MaxCap : Reserve(n)
    \/ ShrinkToFit
    \/ Clear
    \/ \E T \in Types : Get(T)
    \/ \E T \in Types : GetMut(T)
    \/ \E w \in Vals : WriteRef(w)
    \/ ReleaseRef
    \/ \E T \in Types, v \in Vals : Insert(T, v)
    \/ \E T \in Types : Remove(T)
    \/ \E T \in Types : Contains(T)
    \/ AsRaw
    \/ IntoRaw
    \/ \E T \in Types : MapEntry(T)
    \/ EntryDrop
    \/ OccGet
    \/ OccGetMut
    \/ OccIntoMut
    \/ \E v \in Vals : OccInsert(v)
    \/ OccRemove
    \/ \E v \in Vals : VacInsert(v)
    \/ \E d \in Vals : OrInsert(d)
    \/ \E d \in Vals : OrInsertWith(d)
    \/ OrDefault
    \/ \E d \in 1 .. MaxVal : AndModify(d)

Next ==
    \/ NextTyped
    \/ \E it \in Iters : Extend(it)

\* every safe operation of the facade
Spec == Init /\ [][Next]_vars

\* the typed operations only (no extend)
SpecTyped == Init /\ [][NextTyped]_vars

\* Two maps related by clone(): the operations that read or change what a map
\* holds, on whichever of the two the caller is using.
NextCloneTyped ==
    \/ Clone
    \/ Swap
    \/ Clear
    \/ \E T \in Types : GetMut(T)
    \/ \E w \in Vals : WriteRef(w)
    \/ ReleaseRef
    \/ \E T \in Types, v \in Vals : Insert(T, v)
    \/ \E T \in Types : Remove(T)
    \/ \E T \in Types : MapEntry(T)
    \/ EntryDrop
    \/ \E v \in Vals : OccInsert(v)
    \/ OccRemove
    \/ \E v \in Vals : VacInsert(v)
    \/ \E d \in 1 .. MaxVal : AndModify(d)

NextClone ==
    \/ NextCloneTyped
    \/ \E it \in Iters : Extend(it)

\* A TypeIdHasher on its own, in any build of the crate.
InitHasher ==
    /\ raw = NewRaw
    /\ live = TRUE
    /\ borrow = NoBorrow
    /\ op = [name |-> "new", T |-> "-", arg |-> 0, calls |-> 0, was |-> 0]
    /\ ret = Unit
    /\ other = {}
    /\ hasher = NewHasher
    /\ build \in Builds

NextHasher ==
    \/ HasherDefault
    \/ \E bytes \in Slices : Write(bytes)
    \/ \E T \in Types : HashTypeId(T)
    \/ \E T \in Types : HashKey(T)
    \/ Finish

SpecHasher == InitHasher /\ [][NextHasher]_vars

SpecCloneTyped == Init /\ [][NextCloneTyped]_vars
SpecClone == Init /\ [][NextClone]_vars

(***************************************************************************)
(* The claims.                                                             *)
(***************************************************************************)

\* the types stored in the raw map m
Stored(m) == {T \in Types : m.slot[TypeIdOf(T)] # Absent}

\* every entry of m holds a value of the type its key denotes
KeyMatchesType(m) == \A T \in Stored(m) : m.slot[TypeIdOf(T)].ty = T

\* what an Option<T>-returning lookup of T's slot in m yields when the slot
\* holds a T
SlotOption(m, T) ==
    IF m.slot[TypeIdOf(T)] = Absent THEN None ELSE Some(m.slot[TypeIdOf(T)].v)

\* the operations that name a type T
TypedOps ==
    {"insert", "get", "get_mut", "write_ref", "release_ref", "remove", "contains",
     "entry", "entry_drop", "occupied_get", "occupied_get_mut", "occupied_into_mut",
     "occupied_insert", "occupied_remove", "vacant_insert", "or_insert",
     "or_insert_with", "or_default", "and_modify"}

\* C1: in every state reached from an empty map by the safe typed operations
\* (insert, get_mut, remove, clear, entry and the entry operations, as_raw,
\* into_raw), every entry stored under TypeId(T) holds a value whose runtime
\* type is exactly T.
C1_KeyMatchesRuntimeType == KeyMatchesType(raw)

\* C1 witness: every type is stored, the last one put there by
\* VacantEntry::insert.
C1_Witness == op.name = "vacant_insert" /\ Stored(raw) = Types

\* C2: insert::<T>(v) returns Some(old) when T's slot held old and None when
\* T was absent, and right afterwards get::<T>() is Some(v).
C2_InsertReturnsOldStoresNew ==
    [][op'.name = "insert" =>
          /\ ret' = SlotOption(raw, op'.T)
          /\ get(raw', op'.T) = {Some(op'.arg)}]_vars

\* C3: operations on T leave the slot of every other type U as it was, and
\* after insert(t) and insert(u) for distinct T and U, in either order, both
\* get::<T>() == Some(t) and get::<U>() == Some(u).
C3_OtherSlotsUnchanged ==
    [][/\ op'.name \in TypedOps =>
            \A U \in Types \ {op'.T} : raw'.slot[TypeIdOf(U)] = raw.slot[TypeIdOf(U)]
       /\ (op.name = "insert" /\ op'.name = "insert" /\ op.T # op'.T) =>
            /\ get(raw', op.T) = {Some(op.arg)}
            /\ get(raw', op'.T) = {Some(op'.arg)}]_vars

\* C3 witness: an insert of T into a map that already stores another type.
C3_Witness ==
    /\ op.name = "insert"
    /\ ret = None
    /\ \E U \in Types \ {op.T} : U \in Stored(raw)

\* C4: remove::<T>() returns Some(v) when T's slot holds v and None when T
\* is absent; right afterwards get::<T>() is None and contains::<T>() false.
C4_RemoveReturnsAndDeletes ==
    [][op'.name = "remove" =>
          /\ ret' = SlotOption(raw, op'.T)
          /\ get(raw', op'.T) = {None}
          /\ op'.T \notin Stored(raw')]_vars

\* C5: len() is the number of types T with contains::<T>(), is_empty() is
\* true exactly when len() is 0, and a new map has len() 0.
C5_LenCountsStoredTypes ==
    /\ len = Cardinality({T \in Types : contains(T)})
    /\ is_empty <=> (len = 0)
    /\ op.name = "new" => len = 0

\* C5 witness: two types stored, after a remove that took a third one out.
C5_Witness == op.name = "remove" /\ ret.tag = "Some" /\ len = 2

C7_AbsentIsNoneNotError ==
    [][/\ (op'.name \in {"get", "get_mut", "remove", "contains"}
             /\ raw.slot[TypeIdOf(op'.T)] = Absent) =>
            /\ ret' = IF op'.name = "contains" THEN Bool(FALSE) ELSE None
            /\ raw' = raw
            /\ live' /\ borrow' = NoBorrow
       /\ op'.name \in {"get", "contains"} => raw' = raw]_vars

\* C7 witness: a remove of an absent type from a map that stores others.
C7_Witness == op.name = "remove" /\ ret = None /\ op.was > 0 /\ len = op.was

\* C8: a write through the reference returned by get_mut::<T>() lands in
\* the stored value: get::<T>() then returns it, len() and every other slot
\* are unchanged.
C8_GetMutWritesInPlace ==
    [][(op.name = "get_mut" /\ op'.name = "write_ref") =>
          /\ get(raw', op'.T) = {Some(op'.arg)}
          /\ len' = len
          /\ \A U \in Types \ {op'.T} : raw'.slot[TypeIdOf(U)] = raw.slot[TypeIdOf(U)]]_vars

\* the types of the values in the iterator it
IterTypes(it) == {it[i].ty : i \in 1 .. Len(it)}

\* the last value of type T in it
LastOf(it, T) ==
    it[CHOOSE i \in 1 .. Len(it) :
          it[i].ty = T /\ \A j \in (i + 1) .. Len(it) : it[j].ty # T]

\* C9: extend(iter) stores each value under the TypeId of its own concrete
\* type: afterwards every type occurring in iter is contained, get of it
\* returns a value that came from iter, and every key matches its entry's
\* runtime type.
C9_ExtendKeysByValueType ==
    [][\A it \in Iters : Extend(it) =>
          /\ \A T \in IterTypes(it) :
                /\ T \in Stored(raw')
                /\ get(raw', T) \subseteq
                     {Some(it[i].v) : i \in {j \in 1 .. Len(it) : it[j].ty = T}}
          /\ KeyMatchesType(raw')]_vars

\* C10: extend is last-write-wins per type: a type occurring in iter ends
\* up with its last value from iter, other types keep theirs, and len() is
\* the number of types in the union of the prior contents and iter.
C10_ExtendLastWriteWins ==
    [][\A it \in Iters : Extend(it) =>
          /\ \A T \in Types :
                raw'.slot[TypeIdOf(T)] =
                    IF T \in IterTypes(it) THEN LastOf(it, T) ELSE raw.slot[TypeIdOf(T)]
          /\ len' = Cardinality(Stored(raw) \cup IterTypes(it))]_vars

\* the three Entry combinators that end in a `&mut V`
OrOps == {"or_insert", "or_insert_with", "or_default"}

\* C11: or_insert(default), or_insert_with(f), or_default(): with T present
\* the stored value and len() stay as they are; with T absent exactly
\* default / f() / V::default() is stored and len() grows by 1; either way
\* the returned reference is to the value now stored for T, and a write
\* through it shows in get::<T>().
C11_OrInsertKeepsOrStores ==
    [][/\ op'.name \in OrOps =>
            /\ IF op'.T \in Stored(raw)
               THEN raw'.slot = raw.slot /\ len' = len
               ELSE /\ raw'.slot[TypeIdOf(op'.T)] =
                         IntoBox(op'.T, IF op'.name = "or_default" THEN DefaultVal
                                        ELSE op'.arg)
                    /\ len' = len + 1
            /\ ret' = SlotOption(raw', op'.T)
            /\ borrow' = [kind |-> "Mut", T |-> op'.T]
       /\ (op.name \in OrOps /\ op'.name = "write_ref") =>
            get(raw', op'.T) = {Some(op'.arg)}]_vars

\* C12: or_insert(default) twice in a row is or_insert(default) once: the
\* first call leaves T stored, and a call that finds T stored leaves the map
\* exactly as it is (one slot for T, len() not increased).
C12_OrInsertIdempotent ==
    [][op'.name = "or_insert" =>
          /\ op'.T \in Stored(raw')
          /\ op'.T \in Stored(raw) => (raw' = raw)]_vars

\* C12 witness: or_insert called on a type that is already stored (as it is
\* after a first or_insert), in a map holding two types.
C12_Witness ==
    /\ op.name = "or_insert"
    /\ op.was = 2
    /\ len = 2
    /\ op.T \in Stored(raw)

\* C13: and_modify(f): with T absent f is not called, the map is unchanged
\* and the Entry stays Vacant; with T present f is applied exactly once to
\* the stored value in place and the Entry is Occupied with the modified
\* value.
C13_AndModifyOnceIfPresent ==
    [][op'.name = "and_modify" =>
          IF op'.T \in Stored(raw)
          THEN /\ op'.calls = 1
               /\ raw'.slot = [raw.slot EXCEPT ![TypeIdOf(op'.T)].v = Modify(op'.arg, @)]
               /\ ret'.tag = "Occupied" /\ borrow'.kind = "Occupied"
               /\ len' = len
          ELSE /\ op'.calls = 0
               /\ raw' = raw
               /\ ret'.tag = "Vacant" /\ borrow'.kind = "Vacant"]_vars

\* C14: or_insert_with(producer) calls producer at most once, and only when
\* the entry is Vacant; with T present it is not called and the stored
\* value is unchanged.
C14_ProducerOnlyWhenVacant ==
    [][op'.name = "or_insert_with" =>
          /\ op'.calls \in {0, 1}
          /\ (op'.calls = 1) <=> (op'.T \notin Stored(raw))
          /\ op'.T \in Stored(raw) => raw'.slot = raw.slot]_vars

\* C14 witness: or_insert_with on a stored type, the producer not called.
C14_Witness ==
    /\ op.name = "or_insert_with"
    /\ op.calls = 0
    /\ op.was = len
    /\ op.T \in Stored(raw)

\* C16: OccupiedEntry::insert(v) returns the value stored for T before,
\* stores v, leaves len() unchanged, and the view stays Occupied: a
\* following view.get() and a later get::<T>() return v.
C16_OccupiedInsertReplaces ==
    [][/\ op'.name = "occupied_insert" =>
            /\ ret' = SlotOption(raw, op'.T)
            /\ get(raw', op'.T) = {Some(op'.arg)}
            /\ len' = len
            /\ borrow' = [kind |-> "Occupied", T |-> op'.T]
       /\ (op.name = "occupied_insert" /\ op'.name = "occupied_get") =>
            ret' = Some(op.arg)]_vars

\* C17: OccupiedEntry::remove() returns the value stored for T and leaves
\* the slot absent: get::<T>() is None, contains::<T>() false, len() one
\* less, every other slot unchanged.
C17_OccupiedRemoveTakesOut ==
    [][op'.name = "occupied_remove" =>
          /\ ret' = SlotOption(raw, op'.T)
          /\ get(raw', op'.T) = {None}
          /\ op'.T \notin Stored(raw')
          /\ len' = len - 1
          /\ \A U \in Types \ {op'.T} : raw'.slot[TypeIdOf(U)] = raw.slot[TypeIdOf(U)]]_vars

\* C18: VacantEntry::insert(v) on the entry of an absent T creates T's slot
\* holding v, returns a reference to that v, and len() grows by exactly 1;
\* afterwards get::<T>() is Some(v).
C18_VacantInsertCreates ==
    [][op'.name = "vacant_insert" =>
          /\ op'.T \notin Stored(raw)
          /\ raw'.slot[TypeIdOf(op'.T)] = IntoBox(op'.T, op'.arg)
          /\ ret' = Some(op'.arg)
          /\ borrow' = [kind |-> "Mut", T |-> op'.T]
          /\ len' = len + 1
          /\ get(raw', op'.T) = {Some(op'.arg)}]_vars

\* C18 witness: VacantEntry::insert of the value 1 as the second type stored.
C18_Witness ==
    /\ op.name = "vacant_insert"
    /\ op.arg = 1
    /\ op.was = 1
    /\ len = 2
    /\ ret = Some(1)

\* C20: entry::<T>() is Occupied exactly when contains::<T>() holds where
\* it is called and Vacant exactly when it does not; obtaining the entry,
\* dropping it unused or calling OccupiedEntry::get on it changes neither
\* the contents of the map nor len().
C20_EntryReflectsContains ==
    [][/\ op'.name = "entry" =>
            /\ (ret'.tag = "Occupied") <=> contains(op'.T)
            /\ (ret'.tag = "Vacant") <=> ~contains(op'.T)
            /\ borrow'.kind = ret'.tag
       /\ op'.name \in {"entry", "entry_drop", "occupied_get"} =>
            raw'.slot = raw.slot /\ len' = len]_vars

\* C20 witness: an Occupied entry obtained and dropped unused.
C20_Witness ==
    /\ op.name = "entry_drop"
    /\ op.T \in Stored(raw)
    /\ op.was = len

\* C15: clone() yields a second map with the same len() and, for every type
\* T, the same get::<T>() result as the original has when it is cloned
\* (absent types stay absent); every later operation on one of the two maps
\* leaves the other one as it is.
C15_CloneEqualAndIndependent ==
    [][IF op'.name = "clone"
       THEN /\ raw' = raw
            /\ \E m \in other' :
                 /\ other' = {m}
                 /\ m.items = len
                 /\ \A T \in Types :
                      \E r \in get(raw, T) : get(raw, T) = {r} /\ get(m, T) = {r}
       ELSE IF op'.name = "swap"
       THEN other' = {raw} /\ raw' \in other
       ELSE other' = other]_vars

\* The slice b read as a u64 in the byte order of the target.
AsNativeU64(b) ==
    [i \in 1 .. 8 |-> IF build.target_endian = "little" THEN b[9 - i] ELSE b[i]]

\* C19: TypeIdHasher passes its input through: finish() on a freshly
\* defaulted hasher that received exactly one write, of 8 bytes, returns
\* those 8 bytes read as a native-endian u64; when that write was the
\* hashing of a TypeId, finish() returns the TypeId's own 64 bits.
C19_HasherPassThrough ==
    [][(op'.name = "finish" /\ Len(hasher.fed) = 1 /\ Len(hasher.fed[1]) = 8) =>
          /\ ret' = [tag |-> "U64", v |-> AsNativeU64(hasher.fed[1])]
          /\ op.name = "hash" => ret'.v = TypeIdBits(op.T)]_vars

\* C19 witness: on a little-endian target, finish() after hashing the
\* TypeId of A, whose bytes differ from their reverse, returned A's bits.
C19_Witness ==
    /\ op.name = "finish"
    /\ build.target_endian = "little"
    /\ Len(hasher.fed) = 1
    /\ hasher.fed[1] = ToNeBytes(TypeIdBits("A"))
    /\ ret = [tag |-> "U64", v |-> TypeIdBits("A")]

C22_DebugPanicsOffFacade ==
    [][/\ (op'.name = "write" /\ build.debug_assertions /\ op'.arg # 8) =>
            /\ ret'.tag = "Panic"
            /\ hasher'.panicked
            /\ hasher'.value = hasher.value
       /\ hasher.panicked => op'.name # "finish"
       /\ op'.name = "hash_key" =>
            /\ ret' = [tag |-> "U64", v |-> TypeIdBits(op'.T)]
            /\ ~hasher'.panicked
            /\ Len(hasher'.fed) = 1 /\ Len(hasher'.fed[1]) = 8]_vars

\* C22 witness: a debug build in which a 9-byte write, coming after an
\* 8-byte one, has panicked.
C22_Witness ==
    /\ build.debug_assertions
    /\ op.name = "write"
    /\ op.arg = 9
    /\ Len(hasher.fed) = 2
    /\ Len(hasher.fed[1]) = 8
    /\ hasher.panicked
    /\ ret.tag = "Panic"

\* C23: in a build without debug assertions no write panics, and finish()
\* on a hasher that received, since it was defaulted, anything but exactly
\* one 8-byte write returns 0.
C23_ReleaseEmitsZero ==
    [][/\ ~build.debug_assertions => ~hasher'.panicked
       /\ (/\ op'.name = "finish"
           /\ ~build.debug_assertions
           /\ ~(Len(hasher.fed) = 1 /\ Len(hasher.fed[1]) = 8)) =>
            ret' = [tag |-> "U64", v |-> Zero64]]_vars

\* The borrow kinds in which an Entry view is live, and the operations on a
\* view: those that take it by value, and those that take it by reference.
ViewKinds == {"Occupied", "Vacant", "OccMut"}
Terminal ==
    {"occupied_into_mut", "occupied_remove", "vacant_insert", "or_insert",
     "or_insert_with", "or_default"}
NonTerminal == {"occupied_get", "occupied_get_mut", "occupied_insert"}
ViewOps == Terminal \cup NonTerminal \cup {"and_modify", "entry_drop"}

\* C24: an Entry comes from one entry::<T>() call on a map that is not
\* borrowed; every operation on a view needs a live view of that T; a
\* terminal operation leaves no view, so nothing further can be done on it;
\* OccupiedEntry::get, get_mut and insert leave the view live and can be
\* called again; while a view is live the only steps are operations on it
\* (and on the reference get_mut lent out); and a live view is Occupied
\* exactly when its slot is present.
C24_EntryLifecycle ==
    [][/\ op'.name = "entry" => borrow = NoBorrow /\ borrow'.kind \in {"Occupied", "Vacant"}
       /\ op'.name \in ViewOps => borrow.kind \in {"Occupied", "Vacant"} /\ borrow.T = op'.T
       /\ op'.name \in Terminal => borrow'.kind \notin ViewKinds
       /\ op'.name \in NonTerminal =>
            /\ borrow'.kind \in {"Occupied", "OccMut"}
            /\ borrow'.T = borrow.T
       /\ borrow.kind = "Occupied" =>
            /\ ENABLED OccGet
            /\ ENABLED OccGetMut
            /\ ENABLED (\E v \in Vals : OccInsert(v))
       /\ borrow.kind \in ViewKinds => op'.name \in ViewOps \cup {"write_ref", "release_ref"}
       /\ borrow'.kind \in {"Occupied", "OccMut"} => raw'.slot[TypeIdOf(borrow'.T)] # Absent
       /\ borrow'.kind = "Vacant" => raw'.slot[TypeIdOf(borrow'.T)] = Absent]_vars

\* C24 witness: OccupiedEntry::insert has just been called on a view that is
\* still Occupied, on a map holding two types.
C24_Witness ==
    /\ op.name = "occupied_insert"
    /\ borrow = [kind |-> "Occupied", T |-> op.T]
    /\ len = 2
    /\ contains(op.T)

====
